---- MODULE Spec2Model ----
(***************************************************************************)
(* File Integrity Monitor: path discovery (iter_files), fingerprinting     *)
(* (FileInfo.from_path), baseline construction (build_baseline), the diff  *)
(* of two baselines (diff_states) and the CLI's watch loop (main).         *)
(*                                                                         *)
(* A Python str is a sequence of one-character strings, so that glob       *)
(* matching, path joining and lexicographic sorting are computed character *)
(* by character.  A pathlib.Path is the sequence of its segments below "/".*)
(***************************************************************************)
EXTENDS Integers, Sequences, FiniteSets, TLC

VARIABLES
    fs,            \* the file system: physical file -> entry (kind, content, mtime, st_mode)
    cfg,           \* the loaded configuration and command-line flags
    prev,          \* diff_states' / main's `prev` baseline
    curr,          \* diff_states' / main's `curr` baseline
    args,          \* the command line of the process: strict_mtime, track_perms
    result,        \* the last value returned by diff_states
    scan,          \* the outcome of the last build_baseline call
    baseline_file, \* the file at --baseline: whether it exists, and its JSON document
    last_iter,     \* branch taken by the last watch iteration: "none", "changes", "quiet"
    fs_changed,    \* whether the file system changed since the last watch iteration
    edits,         \* number of file-system changes made so far
    pc             \* position of the process

vars == <<fs, cfg, prev, curr, args, result, scan, baseline_file,
          last_iter, fs_changed, edits, pc>>

----------------------------------------------------------------------------
(* Bounds *)

\* total number of records in the two baselines given to diff_states
MaxEntries == 3
\* number of file-system changes the environment makes in one run
MaxEdits == 2

----------------------------------------------------------------------------
(* Python values *)

None == "None"

\* an Optional[int]: None, or the integer it holds
NoInt == <<>>
SomeInt(n) == <<n>>

\* ord(c) for the characters that occur in paths and patterns
Ord(c) ==
    CASE c = "*" -> 42
      [] c = "." -> 46
      [] c = "/" -> 47
      [] c = "?" -> 63
      [] c = "a" -> 97
      [] c = "c" -> 99
      [] c = "d" -> 100
      [] c = "e" -> 101
      [] c = "h" -> 104
      [] c = "l" -> 108
      [] c = "r" -> 114
      [] c = "s" -> 115

\* s < t for two str values (code-point lexicographic order)
RECURSIVE StrLess(_, _)
StrLess(s, t) ==
    IF t = <<>> THEN FALSE
    ELSE IF s = <<>> THEN TRUE
    ELSE IF Head(s) = Head(t) THEN StrLess(Tail(s), Tail(t))
    ELSE Ord(Head(s)) < Ord(Head(t))

\* sorted(S) for a set S of str
RECURSIVE sorted(_)
sorted(S) ==
    IF S = {} THEN <<>>
    ELSE LET m == CHOOSE x \in S : \A y \in S \ {x} : StrLess(x, y)
         IN  <<m>> \o sorted(S \ {m})

Range(q) == {q[i] : i \in DOMAIN q}

\* any(...) over the four lists of a diff result
AnyChange(r) ==
    r.added # <<>> \/ r.removed # <<>> \/ r.modified # <<>> \/ r.meta_changed # <<>>

----------------------------------------------------------------------------
(* diff_states *)

\* an absent pair of diff inputs / result
NoResult == [added |-> <<>>, removed |-> <<>>, modified |-> <<>>, meta_changed |-> <<>>]

\* mutant: the mtime comparison is not gated by strict_mtime
MetaDrift_ungated(p, c, strict) ==
    p.size # c.size \/ p.mtime # c.mtime \/ p.mode # c.mode

\* mutant: `or` written for `and` in the mtime clause
MetaDrift_strictor(p, c, strict) ==
    p.size # c.size \/ (strict \/ p.mtime # c.mtime) \/ p.mode # c.mode

\* mutant: the size comparison is dropped
MetaDrift_nosize(p, c, strict) ==
    (strict /\ p.mtime # c.mtime) \/ p.mode # c.mode

\* the metadata test of the else-branch
MetaDrift(p, c, strict) ==
    p.size # c.size \/ (strict /\ p.mtime # c.mtime) \/ p.mode # c.mode

\* a common path goes to meta_changed
IsMetaChanged(p, c, strict) ==
    p.hash = c.hash /\ MetaDrift(p, c, strict)

\* mutant: a hash difference is only reported when the size agrees
IsModified_sizegate(p, c) ==
    p.hash # c.hash /\ p.size = c.size

\* a common path goes to modified
IsModified(p, c) ==
    p.hash # c.hash

diff_states(pr, cu, strict) ==
    LET prev_keys == DOMAIN pr
        curr_keys == DOMAIN cu
        common    == sorted(prev_keys \cap curr_keys)
    IN  [added        |-> sorted(curr_keys \ prev_keys),
         removed      |-> sorted(prev_keys \ curr_keys),
         modified     |-> SelectSeq(common, LAMBDA k : IsModified(pr[k], cu[k])),
         meta_changed |-> SelectSeq(common, LAMBDA k : IsMetaChanged(pr[k], cu[k], strict))]

----------------------------------------------------------------------------
(* Paths *)

\* segment names
nm_r == <<"r">>
nm_a == <<"a">>
nm_d == <<"d">>
nm_e == <<"e">>
nm_l == <<"l">>
nm_s == <<"s">>
nm_dot_c == <<".", "c">>
nm_dot_h == <<".", "h">>

\* every name a directory listing can return, in listing order
AllNames == <<nm_a, nm_dot_c, nm_d, nm_e, nm_dot_h, nm_l, nm_s>>

\* the directories of the tree, the one symbolic link (to a directory) and the
\* places where a file can be
DirSet == {<<nm_r>>, <<nm_r, nm_d>>, <<nm_r, nm_dot_h>>, <<nm_r, nm_dot_h, nm_s>>}
LinkPath == <<nm_r, nm_l>>
LinkTarget == <<nm_r, nm_d>>
Files == {<<nm_r, nm_a>>, <<nm_r, nm_dot_c>>, <<nm_r, nm_d, nm_a>>,
          <<nm_r, nm_dot_h, nm_s, nm_e>>}

\* "/".join(parts)
RECURSIVE JoinParts(_)
JoinParts(parts) ==
    IF parts = <<>> THEN <<>>
    ELSE IF Len(parts) = 1 THEN parts[1]
    ELSE parts[1] \o <<"/">> \o JoinParts(Tail(parts))

\* str(path) of an absolute path
Str(path) == <<"/">> \o JoinParts(path)

\* str(path.relative_to(root)) for a path under root; the empty relative path is "."
RelStr(parts) == IF parts = <<>> THEN <<".">> ELSE JoinParts(parts)

\* Path.resolve(): symbolic links in the path are replaced by their targets
resolve(path) ==
    IF Len(path) >= Len(LinkPath) /\ SubSeq(path, 1, Len(LinkPath)) = LinkPath
    THEN LinkTarget \o SubSeq(path, Len(LinkPath) + 1, Len(path))
    ELSE path

\* part.startswith('.')
StartsWithDot(name) == name # <<>> /\ name[1] = "."

is_hidden(path) ==
    \E i \in DOMAIN path : StartsWithDot(path[i])

\* fnmatch.fnmatch(s, pat) on POSIX, for patterns made of literals, '*' and '?'
RECURSIVE fnmatch(_, _)
fnmatch(s, pat) ==
    IF pat = <<>> THEN s = <<>>
    ELSE IF Head(pat) = "*"
         THEN fnmatch(s, Tail(pat)) \/ (s # <<>> /\ fnmatch(Tail(s), pat))
    ELSE s # <<>> /\ (Head(pat) = "?" \/ Head(pat) = Head(s)) /\ fnmatch(Tail(s), Tail(pat))

match_any(s, patterns) ==
    \E i \in DOMAIN patterns : fnmatch(s, patterns[i])

\* path.relative_to(root) raises ValueError unless root is a prefix of path
IsUnder(path, root) ==
    Len(root) <= Len(path) /\ SubSeq(path, 1, Len(root)) = root

\* mutant: the forms relative to the roots are not tried
should_exclude_norel(path, patterns, roots) ==
    /\ patterns # <<>>
    /\ match_any(path[Len(path)], patterns) \/ match_any(Str(path), patterns)

should_exclude(path, patterns, roots) ==
    /\ patterns # <<>>
    /\ \/ match_any(path[Len(path)], patterns)
       \/ match_any(Str(path), patterns)
       \/ \E i \in DOMAIN roots :
             /\ IsUnder(path, roots[i])
             /\ match_any(RelStr(SubSeq(path, Len(roots[i]) + 1, Len(path))), patterns)

----------------------------------------------------------------------------
(* The file system *)

\* kind of the entry at a file's place:
\*   "absent"      no entry
\*   "file"        a regular file that can be read
\*   "fifo"        an entry that is not a regular file
\*   "vanishing"   a regular file that is gone when it is stat'ed for its fingerprint
\*   "unreadable"  a regular file whose open() is refused
Kinds == {"absent", "file", "fifo", "vanishing", "unreadable"}

\* Path.is_file()
is_file(f, path) ==
    /\ resolve(path) \in Files
    /\ f[resolve(path)].kind \in {"file", "vanishing", "unreadable"}

\* os.scandir of one directory, split as os.walk splits it
dirnames(f, dpath) ==
    SelectSeq(AllNames, LAMBDA n :
        resolve(dpath) \o <<n>> \in DirSet \/ resolve(dpath) \o <<n>> = LinkPath)

filenames(f, dpath) ==
    SelectSeq(AllNames, LAMBDA n :
        /\ resolve(dpath) \o <<n>> \in Files
        /\ f[resolve(dpath) \o <<n>>].kind # "absent")

\* mutant: hidden directories stay in dirnames
prune_none(names, ignore_hidden) == names

\* dirnames[:] = [d for d in dirnames if not d.startswith('.')]
prune(names, ignore_hidden) ==
    IF ignore_hidden THEN SelectSeq(names, LAMBDA d : ~StartsWithDot(d)) ELSE names

\* os.walk(top, followlinks), top-down, with iter_files' pruning of dirnames:
\* the sequence of (dirpath, filenames)
RECURSIVE os_walk(_, _, _, _)
RECURSIVE walk_each(_, _, _, _, _)
os_walk(f, top, followlinks, ignore_hidden) ==
    IF resolve(top) \notin DirSet THEN <<>>
    ELSE LET kept == prune(dirnames(f, top), ignore_hidden)
             into == SelectSeq(kept, LAMBDA d : followlinks \/ top \o <<d>> # LinkPath)
         IN  <<[dirpath |-> top, filenames |-> filenames(f, top)]>>
             \o walk_each(f, top, into, followlinks, ignore_hidden)

walk_each(f, top, names, followlinks, ignore_hidden) ==
    IF names = <<>> THEN <<>>
    ELSE os_walk(f, top \o <<Head(names)>>, followlinks, ignore_hidden)
         \o walk_each(f, top, Tail(names), followlinks, ignore_hidden)

\* the files iter_files yields from one directory
yield_dir(f, dpath, names, excludes, ignore_hidden, roots) ==
    LET fpaths == [i \in DOMAIN names |-> dpath \o <<names[i]>>]
    IN  SelectSeq(fpaths, LAMBDA fpath :
            /\ ~(ignore_hidden /\ is_hidden(fpath))
            /\ ~should_exclude(fpath, excludes, roots)
            /\ is_file(f, fpath))

RECURSIVE yield_walk(_, _, _, _, _)
yield_walk(f, steps, excludes, ignore_hidden, roots) ==
    IF steps = <<>> THEN <<>>
    ELSE yield_dir(f, Head(steps).dirpath, Head(steps).filenames, excludes, ignore_hidden, roots)
         \o yield_walk(f, Tail(steps), excludes, ignore_hidden, roots)

\* what iter_files does for one root: the directories visited and the files yielded
iter_root(f, root, excludes, follow_symlinks, ignore_hidden, roots) ==
    IF is_file(f, root)
    THEN [visited |-> <<>>,
          files   |-> IF (~ignore_hidden \/ ~is_hidden(root))
                         /\ ~should_exclude(root, excludes, roots)
                      THEN <<root>> ELSE <<>>]
    ELSE LET steps == os_walk(f, root, follow_symlinks, ignore_hidden)
         IN  [visited |-> [i \in DOMAIN steps |-> [root |-> root, dir |-> steps[i].dirpath]],
              files   |-> yield_walk(f, steps, excludes, ignore_hidden, roots)]

RECURSIVE iter_from(_, _, _, _, _, _)
iter_from(f, todo, excludes, follow_symlinks, ignore_hidden, roots) ==
    IF todo = <<>> THEN [visited |-> <<>>, files |-> <<>>]
    ELSE LET one  == iter_root(f, Head(todo), excludes, follow_symlinks, ignore_hidden, roots)
             rest == iter_from(f, Tail(todo), excludes, follow_symlinks, ignore_hidden, roots)
         IN  [visited |-> one.visited \o rest.visited, files |-> one.files \o rest.files]

iter_files(f, paths, excludes, follow_symlinks, ignore_hidden) ==
    LET roots == [i \in DOMAIN paths |-> resolve(paths[i])]
    IN  iter_from(f, roots, excludes, follow_symlinks, ignore_hidden, roots)

----------------------------------------------------------------------------
(* Fingerprints and baselines *)

\* file contents (bytes), and the digest names hashlib.new accepts
Contents == {<<"h">>, <<"j">>, <<"h", "w">>}
Supported == {"sha256", "md5"}

\* hash_file's result: the digest of the whole content under the algorithm
hexdigest(algorithm, content) == <<algorithm, content>>

\* stat.S_IMODE: the permission bits of st_mode, without the file-type bits
S_IMODE(st_mode) == st_mode % 4096

\* FileInfo.from_path and the hash_file it calls: p.stat(), hashlib.new, open and
\* read, in this order; exc names what is raised
from_path(f, p, algorithm, track_perms) ==
    LET e == f[resolve(p)]
    IN  IF e.kind \notin {"file", "unreadable"}
        THEN [exc |-> "FileNotFoundError", info |-> None]
        ELSE IF algorithm \notin Supported THEN [exc |-> "ValueError", info |-> None]
        ELSE IF e.kind = "unreadable" THEN [exc |-> "PermissionError", info |-> None]
        ELSE [exc  |-> None,
              info |-> [hash  |-> hexdigest(algorithm, e.content),
                        size  |-> Len(e.content),
                        mtime |-> e.mtime,
                        mode  |-> IF track_perms THEN SomeInt(S_IMODE(e.st_mode)) ELSE NoInt]]

\* mutant: a bare `except Exception`
Caught_all(exc) == exc # None

\* mutant: only FileNotFoundError is caught
Caught_notfound(exc) == exc = "FileNotFoundError"

\* except (PermissionError, FileNotFoundError, OSError)
Caught(exc) == exc \in {"PermissionError", "FileNotFoundError", "OSError"}

\* baseline[key] = value
SetItem(baseline, key, value) ==
    [k \in DOMAIN baseline \cup {key} |-> IF k = key THEN value ELSE baseline[k]]

\* the for-loop of build_baseline over the files iter_files yields
RECURSIVE build_loop(_, _, _, _, _)
build_loop(f, files, baseline, algorithm, track_perms) ==
    IF files = <<>> THEN [raised |-> None, baseline |-> baseline]
    ELSE LET r == from_path(f, Head(files), algorithm, track_perms)
         IN  IF r.exc = None
             THEN build_loop(f, Tail(files), SetItem(baseline, Str(Head(files)), r.info),
                             algorithm, track_perms)
             ELSE IF Caught(r.exc)
                  THEN build_loop(f, Tail(files), baseline, algorithm, track_perms)
             ELSE [raised |-> r.exc, baseline |-> <<>>]

\* build_baseline; walked and visited record what its iter_files did
build_baseline(f, paths, excludes, algorithm, follow_symlinks, ignore_hidden, track_perms) ==
    LET roots == [i \in DOMAIN paths |-> resolve(paths[i])]
        it    == iter_files(f, roots, excludes, follow_symlinks, ignore_hidden)
        out   == build_loop(f, it.files, <<>>, algorithm, track_perms)
    IN  [raised |-> out.raised, baseline |-> out.baseline,
         walked |-> it.files, visited |-> it.visited]

\* _state_from_config
state_from_config(f, c, track_perms) ==
    build_baseline(f, c.paths, c.excludes, c.algorithm, c.follow_symlinks,
                   c.ignore_hidden, track_perms)

\* save_json: json.dump(..., sort_keys=True), the document as its sorted members
save_json(data) ==
    LET ks == sorted(DOMAIN data)
    IN  [i \in DOMAIN ks |-> [key |-> ks[i], value |-> data[ks[i]]]]

\* load_json: the dict of the document's members
load_json(doc) ==
    [k \in {doc[i].key : i \in DOMAIN doc} |->
        doc[CHOOSE i \in DOMAIN doc : doc[i].key = k].value]

----------------------------------------------------------------------------
(* Inputs *)

\* the file system at the start: every file present, written once
InitFs == [p \in Files |-> [kind |-> "file", content |-> <<"h">>, mtime |-> 1, st_mode |-> 33188]]

\* exclude lists: a basename, a form relative to a root, an absolute form, a form
\* below the symbolic link, the relative form of a root that is a file, a '?' glob
ExcludeLists ==
    { <<>>,
      << <<"a">> >>,
      << <<"d", "/", "a">> >>,
      << <<"/", "r", "/", "a">> >>,
      << <<"l", "/", "*">> >>,
      << <<".">> >>,
      << <<"?", "c">>, <<"*", "/", "e">> >> }

\* configured roots: the tree, a hidden directory, a single file, a hidden single
\* file, and the symbolic link together with the tree
RootLists ==
    { << <<nm_r>> >>,
      << <<nm_r, nm_dot_h>> >>,
      << <<nm_r, nm_a>> >>,
      << <<nm_r, nm_dot_c>> >>,
      << LinkPath, <<nm_r>> >> }

ScanConfigs ==
    [paths : RootLists, excludes : ExcludeLists, algorithm : {"sha256", "crc32"},
     follow_symlinks : BOOLEAN, ignore_hidden : BOOLEAN]

WatchConfigs ==
    [paths : {<< <<nm_r>> >>}, excludes : {<< <<"d", "/", "a">> >>},
     algorithm : {"sha256", "crc32"}, follow_symlinks : {FALSE}, ignore_hidden : BOOLEAN]

\* the files that change while the program runs: one in plain sight, one hidden
Watched == {<<nm_r, nm_a>>, <<nm_r, nm_dot_c>>}

NoConfig == [paths |-> <<>>, excludes |-> <<>>, algorithm |-> "sha256",
             follow_symlinks |-> FALSE, ignore_hidden |-> TRUE]

NoFile == [exists |-> FALSE, doc |-> <<>>]

NoArgs == [strict_mtime |-> FALSE, track_perms |-> FALSE]

NoScan == [raised |-> None, baseline |-> <<>>, walked |-> <<>>, visited |-> <<>>]

\* records and baselines given to diff_states
DiffKeys == {Str(<<nm_r, nm_a>>), Str(<<nm_r, nm_d, nm_a>>)}

DiffRecords ==
    [hash : {hexdigest("sha256", <<"h">>), hexdigest("sha256", <<"j">>)},
     size : {1, 2}, mtime : {1, 2}, mode : {NoInt, SomeInt(420), SomeInt(384)}]

DiffBaselines == UNION {[K -> DiffRecords] : K \in SUBSET DiffKeys}

----------------------------------------------------------------------------
(* diff_states applied to two baselines *)

InitDiff ==
    /\ prev \in DiffBaselines
    /\ curr \in DiffBaselines
    /\ Cardinality(DOMAIN prev) + Cardinality(DOMAIN curr) <= MaxEntries
    /\ args \in [strict_mtime : BOOLEAN, track_perms : {FALSE}]
    /\ result = NoResult
    /\ pc = "diff_input"
    /\ fs = InitFs /\ cfg = NoConfig /\ scan = NoScan /\ baseline_file = NoFile
    /\ last_iter = "none" /\ fs_changed = FALSE /\ edits = 0

Diff ==
    /\ pc = "diff_input"
    /\ result' = diff_states(prev, curr, args.strict_mtime)
    /\ pc' = "diffed"
    /\ UNCHANGED <<fs, cfg, prev, curr, args, scan, baseline_file, last_iter, fs_changed, edits>>

NextDiff == Diff

SpecDiff == InitDiff /\ [][NextDiff]_vars

\* the two baselines were built under one --track-perms setting: every record of
\* both holds a mode, or none does
InitDiffSamePolicy ==
    /\ InitDiff
    /\ \E tracked \in BOOLEAN :
          /\ \A k \in DOMAIN prev : (prev[k].mode # NoInt) = tracked
          /\ \A k \in DOMAIN curr : (curr[k].mode # NoInt) = tracked

SpecDiffSamePolicy == InitDiffSamePolicy /\ [][NextDiff]_vars

----------------------------------------------------------------------------
(* The environment: changes to the file system *)

\* While the program is looked at (SpecCli) the file system changes only once the
\* baseline file has been written: what happened before is the initial state.

\* an entry appears, disappears, or changes what a scan can do with it
EnvSetKind(p, k) ==
    /\ pc = "setup" \/ (pc \in {"shell", "watch"} /\ baseline_file.exists)
    /\ edits < MaxEdits
    /\ fs[p].kind # k
    /\ fs' = [fs EXCEPT ![p].kind = k]
    /\ edits' = edits + 1
    /\ fs_changed' = TRUE
    /\ UNCHANGED <<cfg, prev, curr, args, result, scan, baseline_file, last_iter, pc>>

\* a file is rewritten: new content, new or same mtime
EnvWrite(p, c, t) ==
    /\ pc \in {"shell", "watch"} /\ baseline_file.exists
    /\ edits < MaxEdits
    /\ fs[p].kind # "absent"
    /\ <<fs[p].content, fs[p].mtime>> # <<c, t>>
    /\ fs' = [fs EXCEPT ![p].content = c, ![p].mtime = t]
    /\ edits' = edits + 1
    /\ fs_changed' = TRUE
    /\ UNCHANGED <<cfg, prev, curr, args, result, scan, baseline_file, last_iter, pc>>

\* chmod
EnvChmod(p, m) ==
    /\ pc \in {"shell", "watch"} /\ baseline_file.exists
    /\ edits < MaxEdits
    /\ fs[p].kind # "absent"
    /\ fs[p].st_mode # m
    /\ fs' = [fs EXCEPT ![p].st_mode = m]
    /\ edits' = edits + 1
    /\ fs_changed' = TRUE
    /\ UNCHANGED <<cfg, prev, curr, args, result, scan, baseline_file, last_iter, pc>>

----------------------------------------------------------------------------
(* build_baseline applied to a file system and a configuration *)

InitScan ==
    /\ cfg \in ScanConfigs
    /\ fs = InitFs
    /\ pc = "setup"
    /\ scan = NoScan
    /\ args = NoArgs
    /\ prev = <<>> /\ curr = <<>> /\ result = NoResult /\ baseline_file = NoFile
    /\ last_iter = "none" /\ fs_changed = FALSE /\ edits = 0

Build(track_perms) ==
    /\ pc = "setup"
    /\ args' = [strict_mtime |-> FALSE, track_perms |-> track_perms]
    /\ scan' = state_from_config(fs, cfg, track_perms)
    /\ pc' = "built"
    /\ UNCHANGED <<fs, cfg, prev, curr, result, baseline_file, last_iter, fs_changed, edits>>

NextScan ==
    \/ \E p \in Files, k \in Kinds : EnvSetKind(p, k)
    \/ \E tp \in BOOLEAN : Build(tp)

SpecScan == InitScan /\ [][NextScan]_vars

----------------------------------------------------------------------------
(* The command-line program: main *)

InitCli ==
    /\ cfg \in WatchConfigs
    /\ fs = InitFs
    /\ pc = "shell"
    /\ baseline_file = NoFile
    /\ args = NoArgs
    /\ prev = <<>> /\ curr = <<>> /\ result = NoResult /\ scan = NoScan
    /\ last_iter = "none" /\ fs_changed = FALSE /\ edits = 0

\* no process is running: one can be started
AtPrompt == pc = "shell"

\* fim baseline, run once, when there is no baseline file yet
CmdBaseline(track_perms) ==
    /\ AtPrompt
    /\ ~baseline_file.exists
    /\ LET state == state_from_config(fs, cfg, track_perms)
       IN  IF state.raised # None
           THEN /\ pc' = "crashed"
                /\ UNCHANGED baseline_file
           ELSE /\ baseline_file' = [exists |-> TRUE, doc |-> save_json(state.baseline)]
                /\ pc' = "shell"
    /\ args' = [strict_mtime |-> FALSE, track_perms |-> track_perms]
    /\ UNCHANGED <<fs, cfg, prev, curr, result, scan, last_iter, fs_changed, edits>>

\* fim scan
CmdScan(track_perms, strict) ==
    /\ AtPrompt
    /\ baseline_file.exists
    /\ args' = [strict_mtime |-> strict, track_perms |-> track_perms]
    /\ prev' = load_json(baseline_file.doc)
    /\ LET state == state_from_config(fs, cfg, track_perms)
       IN  IF state.raised # None
           THEN /\ pc' = "crashed"
                /\ UNCHANGED <<curr, result>>
           ELSE /\ curr' = state.baseline
                /\ result' = diff_states(prev', curr', strict)
                /\ pc' = "scanned"
    /\ UNCHANGED <<fs, cfg, scan, baseline_file, last_iter, fs_changed, edits>>

\* fim watch, up to the loop
WatchStart(track_perms, strict) ==
    /\ AtPrompt
    /\ baseline_file.exists
    /\ args' = [strict_mtime |-> strict, track_perms |-> track_perms]
    /\ prev' = load_json(baseline_file.doc)
    /\ pc' = "watch"
    /\ last_iter' = "none"
    /\ fs_changed' = FALSE
    /\ UNCHANGED <<fs, cfg, curr, result, scan, baseline_file, edits>>

\* mutant: prev is replaced in every iteration
WatchIter_always ==
    /\ pc = "watch"
    /\ LET state == state_from_config(fs, cfg, args.track_perms)
       IN  IF state.raised # None
           THEN /\ pc' = "crashed"
                /\ UNCHANGED <<prev, curr, result, last_iter>>
           ELSE /\ curr' = state.baseline
                /\ result' = diff_states(prev, curr', args.strict_mtime)
                /\ prev' = curr'
                /\ last_iter' = IF AnyChange(result') THEN "changes" ELSE "quiet"
                /\ pc' = "watch"
    /\ fs_changed' = FALSE
    /\ UNCHANGED <<fs, cfg, args, scan, baseline_file, edits>>

\* one iteration of the watch loop
WatchIter ==
    /\ pc = "watch"
    /\ LET state == state_from_config(fs, cfg, args.track_perms)
       IN  IF state.raised # None
           THEN /\ pc' = "crashed"
                /\ UNCHANGED <<prev, curr, result, last_iter>>
           ELSE /\ curr' = state.baseline
                /\ result' = diff_states(prev, curr', args.strict_mtime)
                /\ IF AnyChange(result')
                   THEN /\ prev' = curr'
                        /\ last_iter' = "changes"
                   ELSE /\ prev' = prev
                        /\ last_iter' = "quiet"
                /\ pc' = "watch"
    /\ fs_changed' = FALSE
    /\ UNCHANGED <<fs, cfg, args, scan, baseline_file, edits>>

\* Ctrl+C during the sleep
WatchInterrupt ==
    /\ pc = "watch"
    /\ pc' = "stopped"
    /\ UNCHANGED <<fs, cfg, prev, curr, args, result, scan, baseline_file,
                   last_iter, fs_changed, edits>>

NextCli ==
    \/ \E p \in Watched, k \in Kinds : EnvSetKind(p, k)
    \/ \E p \in Watched, c \in {<<"h">>, <<"h", "w">>}, t \in {1, 2} : EnvWrite(p, c, t)
    \/ \E p \in Watched, m \in {33188, 33152} : EnvChmod(p, m)
    \/ \E tp \in BOOLEAN : CmdBaseline(tp)
    \/ \E tp \in BOOLEAN, strict \in BOOLEAN : CmdScan(tp, strict)
    \/ \E tp \in BOOLEAN, strict \in BOOLEAN : WatchStart(tp, strict)
    \/ WatchIter
    \/ WatchInterrupt

SpecCli == InitCli /\ [][NextCli]_vars

----------------------------------------------------------------------------
(* diff_states on given baselines, and on the baselines the program builds *)

InitDiffCli == InitDiff \/ InitCli

NextDiffCli == NextDiff \/ NextCli

SpecDiffCli == InitDiffCli /\ [][NextDiffCli]_vars

----------------------------------------------------------------------------
(* Properties of diff_states *)

InList(l, k) == \E i \in DOMAIN l : l[i] = k

NoDuplicates(l) == \A i, j \in DOMAIN l : l[i] = l[j] => i = j

InBoth(k) == k \in DOMAIN prev /\ k \in DOMAIN curr

\* the number of lists of the result that hold k
ListsHolding(k) ==
    Cardinality({n \in {"added", "removed", "modified", "meta_changed"} : InList(result[n], k)})

\* C1: diff_states classifies every path of keys(prev) \cup keys(curr) into at most one
\* of the four lists: added iff a key of curr only, removed iff a key of prev only,
\* modified iff in both with different hashes, meta_changed iff in both with equal
\* hashes and a size difference, an mtime difference under strict_mtime, or a mode
\* difference, and no list otherwise; no list holds a path outside the union or the
\* same path twice.
C1_Partition ==
    pc = "diffed" =>
        /\ \A k \in DOMAIN prev \cup DOMAIN curr :
              /\ InList(result.added, k) <=> (k \in DOMAIN curr /\ k \notin DOMAIN prev)
              /\ InList(result.removed, k) <=> (k \in DOMAIN prev /\ k \notin DOMAIN curr)
              /\ InList(result.modified, k) <=> (InBoth(k) /\ prev[k].hash # curr[k].hash)
              /\ InList(result.meta_changed, k) <=>
                    /\ InBoth(k)
                    /\ prev[k].hash = curr[k].hash
                    /\ \/ prev[k].size # curr[k].size
                       \/ args.strict_mtime /\ prev[k].mtime # curr[k].mtime
                       \/ prev[k].mode # curr[k].mode
              /\ ListsHolding(k) <= 1
        /\ \A n \in {"added", "removed", "modified", "meta_changed"} :
              /\ Range(result[n]) \subseteq DOMAIN prev \cup DOMAIN curr
              /\ NoDuplicates(result[n])

\* C1 witness: one diff with an added path and a metadata-changed path
C1_Witness ==
    /\ pc = "diffed"
    /\ result.added # <<>>
    /\ result.meta_changed # <<>>
    /\ result.modified = <<>>

\* C3 as stated: with identical hash and size but different mtime, the path is in
\* meta_changed iff strict_mtime is true.  (Checked on baselines built under one
\* --track-perms setting, where no mode is absent on one side only.)
C3_AsStated ==
    pc = "diffed" =>
        \A k \in DOMAIN prev \cap DOMAIN curr :
            (prev[k].hash = curr[k].hash /\ prev[k].size = curr[k].size
                /\ prev[k].mtime # curr[k].mtime)
            => (InList(result.meta_changed, k) <=> args.strict_mtime)

\* C3 amended: with identical hash, size and mode but different mtime, the path is in
\* meta_changed iff strict_mtime is true.
C3_StrictMtimeGating ==
    pc = "diffed" =>
        \A k \in DOMAIN prev \cap DOMAIN curr :
            (prev[k].hash = curr[k].hash /\ prev[k].size = curr[k].size
                /\ prev[k].mode = curr[k].mode /\ prev[k].mtime # curr[k].mtime)
            => (InList(result.meta_changed, k) <=> args.strict_mtime)

\* C3 witness: such a pair of records under strict_mtime, reported in meta_changed
C3_Witness ==
    /\ pc = "diffed"
    /\ args.strict_mtime
    /\ \E k \in DOMAIN prev \cap DOMAIN curr :
          /\ prev[k].hash = curr[k].hash /\ prev[k].size = curr[k].size
          /\ prev[k].mode = curr[k].mode /\ prev[k].mtime # curr[k].mtime
          /\ InList(result.meta_changed, k)

\* C4: a path with equal hash, size and mtime whose mode is absent in one record and
\* present in the other is not placed in meta_changed.
C4_AbsentModeNotCompared ==
    pc = "diffed" =>
        \A k \in DOMAIN prev \cap DOMAIN curr :
            (/\ prev[k].hash = curr[k].hash /\ prev[k].size = curr[k].size
             /\ prev[k].mtime = curr[k].mtime
             /\ (prev[k].mode = NoInt) # (curr[k].mode = NoInt))
            => ~InList(result.meta_changed, k)

\* C9: diff_states(A, A) returns four empty lists, for either value of strict_mtime.
C9_Idempotence ==
    (pc = "diffed" /\ prev = curr) => result = NoResult

\* C9 witness: a non-empty baseline diffed against itself under strict_mtime
C9_Witness ==
    /\ pc = "diffed"
    /\ prev = curr
    /\ DOMAIN prev # {}
    /\ args.strict_mtime

\* C2: every path present in both baselines whose hashes differ is in modified and
\* not in meta_changed, whatever size, mtime, mode and strict_mtime are; and a file
\* rewritten between the scan that built the baseline file and the scan of `fim scan`
\* is in modified.
C2_HashPrecedence ==
    /\ pc \in {"diffed", "scanned"} =>
          \A k \in DOMAIN prev \cap DOMAIN curr :
              prev[k].hash # curr[k].hash
              => InList(result.modified, k) /\ ~InList(result.meta_changed, k)
    /\ pc = "scanned" =>
          \A p \in Files :
              (/\ Str(p) \in DOMAIN prev \cap DOMAIN curr
               /\ fs[p].content # InitFs[p].content)
              => InList(result.modified, Str(p))

\* C2 witness: `fim scan` after a file was rewritten and its mode changed, the
\* baseline and the scan both tracking permissions
C2_Witness ==
    /\ pc = "scanned"
    /\ args.track_perms
    /\ \E p \in Files :
          /\ fs[p].content # InitFs[p].content
          /\ Str(p) \in DOMAIN prev \cap DOMAIN curr
          /\ prev[Str(p)].mode # curr[Str(p)].mode
          /\ InList(result.modified, Str(p))
          /\ result.meta_changed = <<>>

----------------------------------------------------------------------------
(* Properties of build_baseline *)

\* the part of a path string after its last "/"
Basename(s) ==
    LET cut == {i \in DOMAIN s : s[i] = "/"}
        last == IF cut = {} THEN 0 ELSE CHOOSE i \in cut : \A j \in cut : j <= i
    IN  SubSeq(s, last + 1, Len(s))

\* the resolved roots, as strings
RootStrings == {Str(resolve(cfg.paths[i])) : i \in DOMAIN cfg.paths}

\* the forms of a path string relative to the resolved roots it lies under
RelativeForms(s) ==
    {<<".">> : r \in {r \in RootStrings : r = s}}
    \cup {SubSeq(s, Len(r) + 2, Len(s)) :
            r \in {r \in RootStrings : Len(s) > Len(r) + 1 /\ SubSeq(s, 1, Len(r) + 1) = r \o <<"/">>}}

\* the path string matches an exclude pattern through one of its three forms
MatchesExclude(s) ==
    \E i \in DOMAIN cfg.excludes :
        \/ fnmatch(s, cfg.excludes[i])
        \/ fnmatch(Basename(s), cfg.excludes[i])
        \/ \E rel \in RelativeForms(s) : fnmatch(rel, cfg.excludes[i])

\* the path string has a segment that starts with '.'
HasHiddenSegment(s) ==
    \E i \in DOMAIN s : s[i] = "." /\ (i = 1 \/ s[i - 1] = "/")

\* C5: no path that matches an exclude pattern through its absolute form, its
\* basename or its form relative to a resolved root it lies under is a key of the
\* baseline build_baseline returns.
C5_ExclusionCompleteness ==
    pc = "built" => \A k \in DOMAIN scan.baseline : ~MatchesExclude(k)

\* C5 witness: a non-empty baseline from which a readable, visible file is missing
\* that matches a pattern through its root-relative form only
C5_Witness ==
    /\ pc = "built"
    /\ DOMAIN scan.baseline # {}
    /\ ~cfg.ignore_hidden
    /\ \E p \in Files :
          /\ fs[p].kind = "file"
          /\ Str(p) \notin DOMAIN scan.baseline
          /\ MatchesExclude(Str(p))
          /\ \A i \in DOMAIN cfg.excludes :
                ~fnmatch(Str(p), cfg.excludes[i]) /\ ~fnmatch(Basename(Str(p)), cfg.excludes[i])

\* C6 as stated: with ignore_hidden, no key of the baseline has a segment starting
\* with '.', and no directory located under a hidden directory is visited.
C6_AsStated ==
    (pc = "built" /\ cfg.ignore_hidden) =>
        /\ \A k \in DOMAIN scan.baseline : ~HasHiddenSegment(k)
        /\ \A i \in DOMAIN scan.visited :
              \A j \in 1 .. Len(scan.visited[i].dir) - 1 : ~StartsWithDot(scan.visited[i].dir[j])

\* C6 amended: with ignore_hidden, no key of the baseline has a segment starting with
\* '.', and the walk of a root visits no directory whose path below that root has a
\* segment starting with '.'.
C6_HiddenPruning ==
    (pc = "built" /\ cfg.ignore_hidden) =>
        /\ \A k \in DOMAIN scan.baseline : ~HasHiddenSegment(k)
        /\ \A i \in DOMAIN scan.visited :
              \A j \in Len(scan.visited[i].root) + 1 .. Len(scan.visited[i].dir) :
                  ~StartsWithDot(scan.visited[i].dir[j])

\* C6 witness: a walk of the tree with ignore_hidden that went below the root, while a
\* readable file lies under a hidden directory of the tree
C6_Witness ==
    /\ pc = "built"
    /\ cfg.ignore_hidden
    /\ cfg.paths = << <<nm_r>> >>
    /\ fs[<<nm_r, nm_dot_h, nm_s, nm_e>>].kind = "file"
    /\ Len(scan.visited) > 1
    /\ DOMAIN scan.baseline # {}

\* the walked files whose fingerprint succeeds
Fingerprintable == {w \in Range(scan.walked) : fs[resolve(w)].kind = "file"}

\* C7: a per-file I/O error is never raised to the caller; under a supported digest
\* name build_baseline raises nothing and returns a record for exactly the walked
\* files whose fingerprint succeeded.
C7_BestEffort ==
    pc = "built" =>
        /\ scan.raised \notin {"PermissionError", "FileNotFoundError", "OSError"}
        /\ cfg.algorithm \in Supported =>
              /\ scan.raised = None
              /\ DOMAIN scan.baseline = {Str(w) : w \in Fingerprintable}
              /\ \A w \in Fingerprintable :
                    /\ scan.baseline[Str(w)].hash = hexdigest(cfg.algorithm, fs[resolve(w)].content)
                    /\ scan.baseline[Str(w)].size = Len(fs[resolve(w)].content)
                    /\ scan.baseline[Str(w)].mtime = fs[resolve(w)].mtime
                    /\ scan.baseline[Str(w)].mode =
                          IF args.track_perms THEN SomeInt(fs[resolve(w)].st_mode % 4096)
                          ELSE NoInt

\* C7 witness: one walked file vanished, another could not be opened, a third was
\* fingerprinted
C7_Witness ==
    /\ pc = "built"
    /\ \E w \in Range(scan.walked) : fs[resolve(w)].kind = "vanishing"
    /\ \E w \in Range(scan.walked) : fs[resolve(w)].kind = "unreadable"
    /\ DOMAIN scan.baseline # {}

\* C8 as stated: build_baseline called with an unsupported digest name raises the
\* unsupported-algorithm error.
C8_AsStated ==
    (pc = "built" /\ cfg.algorithm \notin Supported) => scan.raised = "ValueError"

\* C8 amended: with an unsupported digest name, build_baseline raises the
\* unsupported-algorithm error iff some walked file is stat'ed successfully, and
\* otherwise returns an empty baseline.
C8_UnsupportedAlgorithm ==
    (pc = "built" /\ cfg.algorithm \notin Supported) =>
        /\ scan.raised = "ValueError" <=>
              \E w \in Range(scan.walked) : fs[resolve(w)].kind \in {"file", "unreadable"}
        /\ scan.raised \in {None, "ValueError"}
        /\ scan.raised = None => DOMAIN scan.baseline = {}

\* C8 witness: the error is raised although an earlier walked file had vanished
C8_Witness ==
    /\ pc = "built"
    /\ cfg.algorithm \notin Supported
    /\ scan.raised = "ValueError"
    /\ \E w \in Range(scan.walked) : fs[resolve(w)].kind = "vanishing"

----------------------------------------------------------------------------
(* Properties of the watch loop *)

\* C10: an iteration of the watch loop replaces prev by curr exactly when its diff is
\* non-empty; once an iteration has run, an iteration that scans an unchanged file
\* system reports an empty diff; the loop never writes the baseline file.
C10_WatchLoop ==
    [][ /\ (pc = "watch" /\ pc' = "watch" /\ fs' = fs) =>
              /\ prev' = IF AnyChange(result') THEN curr' ELSE prev
              /\ (last_iter # "none" /\ ~fs_changed) => ~AnyChange(result')
        /\ pc = "watch" => baseline_file' = baseline_file ]_vars

\* C10 witness: a quiet iteration, on an unchanged file system, after prev was
\* replaced by a scan that differs from the baseline file
C10_Witness ==
    /\ pc = "watch"
    /\ last_iter = "quiet"
    /\ ~fs_changed
    /\ prev = curr
    /\ prev # load_json(baseline_file.doc)

====
